---- MODULE Spec2Model ----
(***************************************************************************)
(* vatis: a host telemetry agent (src/main.rs).  The process connects to   *)
(* an MQTT broker, arms a repeating timer and two signal listeners, and    *)
(* on every timer tick samples memory and TCP statistics and publishes one *)
(* message per metric; SIGINT or SIGTERM leaves the loop and disconnects.  *)
(*                                                                         *)
(* The process is one thread: `pc` is its position in main / send_stats /  *)
(* send_mem_stats / send_tcp_stats.  The environment (the clock and the    *)
(* delivery of signals) moves independently of it.                         *)
(***************************************************************************)
EXTENDS Integers, Sequences, FiniteSets, TLC

\* The model's horizon: the clock stops advancing after MaxTime units.
MaxTime == 2

\* The longest TCP table the kernel-statistics reader returns.
MaxRows == 3

VARIABLES
    pc,           \* position of the main thread
    status,       \* process exit status; NoStatus while the process runs
    connected,    \* the broker handle `cli` holds a connection
    interval,     \* `interval` of main, seconds
    mac,          \* `mac_address` of main
    now,          \* the clock, in seconds since the timer was created
    deadline,     \* the timer's next deadline
    sigint,       \* a SIGINT is pending on sigint_stream
    sigterm,      \* a SIGTERM is pending on sigterm_stream
    sigTaken,     \* which signal branch broke the loop
    sigMidTick,   \* history: a signal was delivered while a tick was in flight
    inflight,     \* number of send_stats calls that have started and not returned
    ticksStarted, \* number of send_stats calls started
    memTs,        \* `now` of send_mem_stats
    tcpTs,        \* `now` of send_tcp_stats
    memInfo,      \* `mem_info` of send_mem_stats
    tcpStat,      \* `tcp_stat` of send_tcp_stats
    memIdx,       \* the next send(...) line of send_mem_stats
    tcpIdx,       \* the next row of the `for s in &tcp_stat` loop
    log,          \* history: the messages handed to cli.publish by the tick in flight
    lastResult,   \* what the last cli.publish returned
    readerFailed, \* which kernel-statistics read failed, if any
    disconnects,  \* number of cli.disconnect calls
    disconnectResult, \* what cli.disconnect returned
    intervalArg,  \* the second command-line argument, env::args().nth(2)
    startupFailure    \* which startup step ended the process, if any

vars == <<pc, status, connected, interval, mac, now, deadline, sigint, sigterm,
          sigTaken, sigMidTick, inflight, ticksStarted, memTs, tcpTs, memInfo,
          tcpStat, memIdx, tcpIdx, log, lastResult, readerFailed,
          disconnects, disconnectResult, intervalArg, startupFailure>>

NoStatus == -1
ExitOk == 0
ExitFailure == 1
ExitPanic == 101
DefaultInterval == 10
QoS == 0

----------------------------------------------------------------------------
(* Text: format!("{}", n) of an unsigned number.                           *)

Digit(d) ==
    CASE d = 0 -> "0" [] d = 1 -> "1" [] d = 2 -> "2" [] d = 3 -> "3"
      [] d = 4 -> "4" [] d = 5 -> "5" [] d = 6 -> "6" [] d = 7 -> "7"
      [] d = 8 -> "8" [] d = 9 -> "9"

RECURSIVE Fmt(_)
Fmt(n) == IF n < 10 THEN Digit(n) ELSE Fmt(n \div 10) \o Digit(n % 10)

(* Text: str::parse::<u64>() of a sequence of characters; ParseError when  *)
(* the text is not an unsigned decimal number.                             *)

ParseError == -1

DigitChars == {"0", "1", "2", "3", "4", "5", "6", "7", "8", "9"}

DigitVal(c) ==
    CASE c = "0" -> 0 [] c = "1" -> 1 [] c = "2" -> 2 [] c = "3" -> 3
      [] c = "4" -> 4 [] c = "5" -> 5 [] c = "6" -> 6 [] c = "7" -> 7
      [] c = "8" -> 8 [] c = "9" -> 9

RECURSIVE DigitsValue(_, _)
DigitsValue(cs, acc) ==
    IF cs = <<>> THEN acc
    ELSE IF Head(cs) \notin DigitChars THEN ParseError
    ELSE DigitsValue(Tail(cs), acc * 10 + DigitVal(Head(cs)))

ParseU64(cs) ==
    LET ds == IF cs # <<>> /\ Head(cs) = "+" THEN Tail(cs) ELSE cs
    IN  IF ds = <<>> THEN ParseError ELSE DigitsValue(ds, 0)

\* The second command-line argument: absent, or its characters.
Absent == <<"\\absent">>

IntervalArgs ==
    {Absent, <<>>, <<"a", "b", "c">>, <<"-", "1">>, <<"1", "x">>,
     <<"0">>, <<"1">>, <<"+", "2">>}

\* Variant: a parsed interval below 1 is raised to 1.
IntervalOf_Clamped(arg) ==
    LET text == IF arg = Absent THEN <<"1", "0">> ELSE arg
        n == ParseU64(text)
    IN  IF n = ParseError THEN DefaultInterval ELSE IF n < 1 THEN 1 ELSE n

\* Variant: a parse error yields the default of the type, 0.
IntervalOf_ZeroOnError(arg) ==
    LET text == IF arg = Absent THEN <<"1", "0">> ELSE arg
        n == ParseU64(text)
    IN  IF n = ParseError THEN 0 ELSE n

\* main, lines 35-39: the argument or "10", parsed, or 10.
IntervalOf(arg) ==
    LET text == IF arg = Absent THEN <<"1", "0">> ELSE arg
        n == ParseU64(text)
    IN  IF n = ParseError THEN DefaultInterval ELSE n

----------------------------------------------------------------------------
(* The static table of send_mem_stats: metric name, MemInfo field.         *)

MemTable ==
    <<
       <<"memory/total", "mem_total">>,
       <<"memory/free", "mem_free">>,
       <<"memory/available", "mem_available">>,
       <<"memory/buffers", "bufers">>,
       <<"memory/cached", "cached">>,
       <<"memory/swap/cached", "swap_cached">>,
       <<"memory/active", "active">>,
       <<"memory/active/anon", "active_anon">>,
       <<"memory/active/file", "active_file">>,
       <<"memory/inactive", "inactive">>,
       <<"memory/inactive/anon", "inactive_anon">>,
       <<"memory/inactive/file", "inactive_file">>,
       <<"memory/mlocked", "mlocked">>,
       <<"memory/unevictable", "unevictable">>,
       <<"memory/swap/total", "swap_total">>,
       <<"memory/swap/free", "swap_free">>,
       <<"memory/dirty", "dirty">>,
       <<"memory/writeback", "writeback">>,
       <<"memory/anon-pages", "anon_pages">>,
       <<"memory/mapped", "mapped">>,
       <<"memory/shmem", "shmem">>,
       <<"memory/sreclaimable", "s_reclaimable">>,
       <<"memory/sunreclaim", "s_unreclaim">>,
       <<"memory/slab", "slab">>,
       <<"memory/kernelstack", "kernel_stack">>,
       <<"memory/pagetables", "page_tables">>,
       <<"memory/nfs-unstable", "nfs_unstable">>,
       <<"memory/bounce", "bounce">>,
       <<"memory/writebacktmp", "writeback_tmp">>,
       <<"memory/commitlimit", "commit_limit">>,
       <<"memory/committed-as", "committed_as">>,
       <<"memory/vmalloc/total", "vmalloc_total">>,
       <<"memory/vmalloc/used", "vmalloc_used">>,
       <<"memory/vmalloc/chunk", "vmalloc_chunk">>,
       <<"memory/hardware-corrupted", "hardware_corrupted">>,
       <<"memory/hugepages/anon", "anon_huge_pages">>,
       <<"memory/hugepages/total", "huge_pages_total">>,
       <<"memory/hugepages/free", "huge_pages_free">>,
       <<"memory/hugepages/surp", "huge_pages_surp">>,
       <<"memory/hugepages/rsvd", "huge_pages_rsvd">>,
       <<"memory/hugepagesize", "hugepagesize">>,
       <<"memory/cma/total", "cma_total">>,
       <<"memory/cma/free", "cma_free">>
    >>

NMem == Len(MemTable)

MemFields == {MemTable[i][2] : i \in 1..NMem}

FieldIndex(f) == CHOOSE i \in 1..NMem : MemTable[i][2] = f

\* The snapshots linux_stats::meminfo() may return: every field distinct.
MemSnapshots == {[f \in MemFields |-> base + FieldIndex(f)] : base \in {0, 1000}}

NoMemInfo == [f \in MemFields |-> 0]

\* The tables linux_stats::tcp() may return: rows of slot and local address.
TcpRows ==
    <<[sl |-> 0, local_address |-> "127.0.0.1:631"],
      [sl |-> 3, local_address |-> "10.0.0.5:22"],
      [sl |-> 7, local_address |-> "0.0.0.0:1883"]>>

RECURSIVE SubSeqs(_, _)
SubSeqs(rows, n) ==
    IF rows = <<>> \/ n = 0 THEN {<<>>}
    ELSE SubSeqs(Tail(rows), n)
         \cup {<<Head(rows)>> \o t : t \in SubSeqs(Tail(rows), n - 1)}

TcpTables == SubSeqs(TcpRows, MaxRows)

----------------------------------------------------------------------------
(* get_mac: the interface enumerations of /sys/class/net and the address   *)
(* file of each interface (the kernel ends it with a newline).             *)

IfaceLists == {<<"lo", "eth0", "wlan0">>, <<"eth0", "lo">>, <<"lo">>, <<>>}

AddressFile(iface) ==
    CASE iface = "eth0" -> "aa:bb:cc:dd:ee:ff\n"
      [] iface = "wlan0" -> "02:00:00:00:00:01\n"
      [] OTHER -> "00:00:00:00:00:00\n"

\* ifaces.retain(|x| x != "lo")
RetainNotLo(ifaces) == SelectSeq(ifaces, LAMBDA x : x # "lo")

----------------------------------------------------------------------------
(* send: the message built for one metric.                                 *)

\* Variant: the payload is written value first.
Message_ValueFirst(macaddr, metric, ts, mvalue, collector) ==
    [topic |-> "metrics/" \o macaddr \o "/" \o metric,
     payload |-> mvalue \o ";" \o Fmt(ts),
     qos |-> QoS,
     ts |-> ts,
     metric |-> metric,
     mvalue |-> mvalue,
     collector |-> collector]

\* send, lines 157-161; ts, metric and mvalue keep the arguments and
\* `collector` records which collector called.
Message(macaddr, metric, ts, mvalue, collector) ==
    [topic |-> "metrics/" \o macaddr \o "/" \o metric,
     payload |-> Fmt(ts) \o ";" \o mvalue,
     qos |-> QoS,
     ts |-> ts,
     metric |-> metric,
     mvalue |-> mvalue,
     collector |-> collector]

PublishResults == {"ok", "err"}

----------------------------------------------------------------------------
Init ==
    /\ pc = "connect"
    /\ status = NoStatus
    /\ connected = FALSE
    /\ interval = 0
    /\ mac = ""
    /\ now = 0
    /\ deadline = 0
    /\ sigint = FALSE
    /\ sigterm = FALSE
    /\ sigTaken = "none"
    /\ sigMidTick = FALSE
    /\ inflight = 0
    /\ ticksStarted = 0
    /\ memTs = 0
    /\ tcpTs = 0
    /\ memInfo = NoMemInfo
    /\ tcpStat = <<>>
    /\ memIdx = 1
    /\ tcpIdx = 1
    /\ log = <<>>
    /\ lastResult = "none"
    /\ readerFailed = "none"
    /\ disconnects = 0
    /\ disconnectResult = "none"
    /\ intervalArg \in IntervalArgs
    /\ startupFailure = "none"

\* The process ends with exit status `code`.
Exit(code) ==
    /\ pc' = "done"
    /\ status' = code

loopVars == <<deadline, sigint, sigterm, sigTaken, sigMidTick, inflight, ticksStarted>>
tickVars == <<memTs, tcpTs, memInfo, tcpStat, memIdx, tcpIdx, log, lastResult,
              readerFailed>>
shutdownVars == <<disconnects, disconnectResult>>

----------------------------------------------------------------------------
(* Startup: main, lines 28-48.                                             *)

\* Variant: a failed Client::new or cli.connect is logged and the client is
\* returned unconnected.
ConnectMqtt_Continue ==
    /\ pc = "connect"
    /\ \E r \in {"ok", "new_err", "connect_err"} :
         /\ connected' = (r = "ok")
         /\ startupFailure' =
               (CASE r = "ok" -> startupFailure
                  [] r = "new_err" -> "client_new"
                  [] r = "connect_err" -> "connect")
    /\ pc' = "interval"
    /\ UNCHANGED <<status, interval, mac, now, intervalArg>>
    /\ UNCHANGED <<loopVars, tickVars, shutdownVars>>

\* connect_mqtt: Client::new or cli.connect fails -> process::exit(1).
ConnectMqtt ==
    /\ pc = "connect"
    /\ \E r \in {"ok", "new_err", "connect_err"} :
         IF r = "ok"
         THEN /\ connected' = TRUE
              /\ pc' = "interval"
              /\ UNCHANGED <<status, startupFailure>>
         ELSE /\ connected' = FALSE
              /\ startupFailure' = (IF r = "new_err" THEN "client_new" ELSE "connect")
              /\ Exit(ExitFailure)
    /\ UNCHANGED <<interval, mac, now, intervalArg>>
    /\ UNCHANGED <<loopVars, tickVars, shutdownVars>>

\* main, lines 35-39.
GetInterval ==
    /\ pc = "interval"
    /\ interval' = IntervalOf(intervalArg)
    /\ pc' = "timer"
    /\ UNCHANGED <<status, connected, mac, now, intervalArg, startupFailure>>
    /\ UNCHANGED <<loopVars, tickVars, shutdownVars>>

\* main, line 41: time::interval panics on a zero period; the first tick of
\* the timer is due at once.
StartTimer ==
    /\ pc = "timer"
    /\ IF interval = 0
       THEN /\ Exit(ExitPanic)
            /\ startupFailure' = "timer"
            /\ deadline' = deadline
       ELSE /\ deadline' = now
            /\ pc' = "get_mac"
            /\ UNCHANGED <<status, startupFailure>>
    /\ UNCHANGED <<connected, interval, mac, now, intervalArg>>
    /\ UNCHANGED <<sigint, sigterm, sigTaken, sigMidTick, inflight, ticksStarted>>
    /\ UNCHANGED <<tickVars, shutdownVars>>

\* Variant: get_mac returns an empty address when it finds none.
GetMac_EmptyOnError ==
    /\ pc = "get_mac"
    /\ \E dir \in {"ok", "err"}, ifaces \in IfaceLists, file \in {"ok", "err"} :
         LET kept == RetainNotLo(ifaces)
         IN  IF dir = "err" \/ kept = <<>> \/ file = "err"
             THEN /\ startupFailure' =
                        (IF dir = "err" THEN "read_dir"
                         ELSE IF kept = <<>> THEN "no_iface" ELSE "address")
                  /\ mac' = ""
             ELSE /\ mac' = AddressFile(kept[1])
                  /\ startupFailure' = startupFailure
    /\ pc' = "signals"
    /\ UNCHANGED <<status, connected, interval, now, intervalArg>>
    /\ UNCHANGED <<loopVars, tickVars, shutdownVars>>

\* get_mac: read_dir fails, no interface is left after `lo` is dropped, or
\* the address file cannot be read -> panic.
GetMac ==
    /\ pc = "get_mac"
    /\ \E dir \in {"ok", "err"}, ifaces \in IfaceLists, file \in {"ok", "err"} :
         LET kept == RetainNotLo(ifaces)
         IN  IF dir = "err" \/ kept = <<>> \/ file = "err"
             THEN /\ Exit(ExitPanic)
                  /\ startupFailure' =
                        (IF dir = "err" THEN "read_dir"
                         ELSE IF kept = <<>> THEN "no_iface" ELSE "address")
                  /\ mac' = mac
             ELSE /\ mac' = AddressFile(kept[1])
                  /\ pc' = "signals"
                  /\ UNCHANGED <<status, startupFailure>>
    /\ UNCHANGED <<connected, interval, now, intervalArg>>
    /\ UNCHANGED <<loopVars, tickVars, shutdownVars>>

\* main, lines 47-48: `?` returns the error from main.
RegisterSignals ==
    /\ pc = "signals"
    /\ \E r \in {"ok", "err"} :
         IF r = "ok"
         THEN /\ pc' = "select"
              /\ UNCHANGED <<status, startupFailure>>
         ELSE /\ startupFailure' = "signals"
              /\ Exit(ExitFailure)
    /\ UNCHANGED <<connected, interval, mac, now, intervalArg>>
    /\ UNCHANGED <<loopVars, tickVars, shutdownVars>>

----------------------------------------------------------------------------
(* The loop: main, lines 50-64.                                            *)

\* The positions of send_stats and the two collectors it drives.
TickPcs == {"mem_start", "mem_send", "tcp_start", "tcp_send"}

\* Variant: the loop is back at select! while a tick it started still runs.
AtSelect_WhileTick == pc = "select" \/ pc \in TickPcs

\* The thread is at tokio::select!, line 51.
AtSelect == pc = "select"

\* Variant: the timer branch is ready on every poll.
TimerReady_Always == TRUE

\* timer.tick() is ready: the deadline has passed.
TimerReady == now >= deadline

\* Variant: the next tick is scheduled one period after the late tick was
\* taken.
NextDeadline_FromNow == now + interval

\* Line 41: a timer made by time::interval schedules its next tick one
\* period after the deadline that fired, also when that tick was taken late.
NextDeadline == deadline + interval

\* Variant: send_stats runs the TCP collector first.
TimerBranch_TcpFirst ==
    /\ AtSelect
    /\ TimerReady
    /\ deadline' = NextDeadline
    /\ inflight' = inflight + 1
    /\ ticksStarted' = ticksStarted + 1
    /\ pc' = "tcp_start"
    /\ UNCHANGED <<status, connected, interval, mac, intervalArg, startupFailure, now>>
    /\ UNCHANGED <<sigint, sigterm, sigTaken, sigMidTick>>
    /\ UNCHANGED tickVars
    /\ UNCHANGED shutdownVars

\* Line 52-53: the timer branch.  send_stats is called and runs on this
\* thread.
TimerBranch ==
    /\ AtSelect
    /\ TimerReady
    /\ deadline' = NextDeadline
    /\ inflight' = inflight + 1
    /\ ticksStarted' = ticksStarted + 1
    /\ pc' = "mem_start"
    /\ UNCHANGED <<status, connected, interval, mac, intervalArg, startupFailure, now>>
    /\ UNCHANGED <<sigint, sigterm, sigTaken, sigMidTick>>
    /\ UNCHANGED tickVars
    /\ UNCHANGED shutdownVars

\* Variant: SIGINT is handled as soon as it is delivered, also inside a tick.
SigintBranch_Preempt ==
    /\ pc = "select" \/ pc \in TickPcs
    /\ sigint
    /\ sigint' = FALSE
    /\ sigTaken' = "SIGINT"
    /\ pc' = "disconnect"
    /\ UNCHANGED <<status, connected, interval, mac, intervalArg, startupFailure, now>>
    /\ UNCHANGED <<deadline, sigterm, sigMidTick, inflight, ticksStarted>>
    /\ UNCHANGED <<tickVars, shutdownVars>>

\* Lines 55-58: the SIGINT branch breaks the loop.
SigintBranch ==
    /\ AtSelect
    /\ sigint
    /\ sigint' = FALSE
    /\ sigTaken' = "SIGINT"
    /\ pc' = "disconnect"
    /\ UNCHANGED <<status, connected, interval, mac, intervalArg, startupFailure, now>>
    /\ UNCHANGED <<deadline, sigterm, sigMidTick, inflight, ticksStarted>>
    /\ UNCHANGED <<tickVars, shutdownVars>>

\* Variant: the SIGTERM branch logs the signal and the loop goes on.
SigtermBranch_Continue ==
    /\ AtSelect
    /\ sigterm
    /\ sigterm' = FALSE
    /\ pc' = "select"
    /\ UNCHANGED <<status, connected, interval, mac, intervalArg, startupFailure, now>>
    /\ UNCHANGED <<deadline, sigint, sigTaken, sigMidTick, inflight, ticksStarted>>
    /\ UNCHANGED <<tickVars, shutdownVars>>

\* Lines 59-62: the SIGTERM branch breaks the loop.
SigtermBranch ==
    /\ AtSelect
    /\ sigterm
    /\ sigterm' = FALSE
    /\ sigTaken' = "SIGTERM"
    /\ pc' = "disconnect"
    /\ UNCHANGED <<status, connected, interval, mac, intervalArg, startupFailure, now>>
    /\ UNCHANGED <<deadline, sigint, sigMidTick, inflight, ticksStarted>>
    /\ UNCHANGED <<tickVars, shutdownVars>>

----------------------------------------------------------------------------
(* One tick: send_stats, send_mem_stats, send_tcp_stats, send.             *)

\* Variant: a message whose publish failed is handed to cli.publish again.
Send_Retry(msg, r, next) ==
    /\ log' = (IF r = "err" THEN Append(Append(log, msg), msg) ELSE Append(log, msg))
    /\ lastResult' = r
    /\ pc' = next
    /\ status' = status

\* Variant: send unwraps the result of cli.publish.
Send_Fatal(msg, r, next) ==
    /\ log' = Append(log, msg)
    /\ lastResult' = r
    /\ IF r = "err"
       THEN Exit(ExitPanic)
       ELSE /\ pc' = next
            /\ status' = status

\* send, lines 163-165: the message is handed to cli.publish; an error is
\* logged and send returns to the collector, which goes on at `next`.
Send(msg, r, next) ==
    /\ log' = Append(log, msg)
    /\ lastResult' = r
    /\ pc' = next
    /\ status' = status

\* Variant: every send(...) of send_mem_stats reads the clock again.
MemMessage_FreshClock(i) ==
    Message(mac, MemTable[i][1], now, Fmt(memInfo[MemTable[i][2]]), "mem")

\* Lines 178-220: the i-th send(...) of send_mem_stats, stamped with `now`
\* of send_mem_stats.
MemMessage(i) ==
    Message(mac, MemTable[i][1], memTs, Fmt(memInfo[MemTable[i][2]]), "mem")

\* Variant: the rows are numbered by their position in the table.
TcpMessage_Sequential(j) ==
    Message(mac, "tcp/" \o Fmt(j - 1) \o "/ipv4address", tcpTs,
            tcpStat[j].local_address, "tcp")

\* Line 231: the metric of row j of tcp_stat, stamped with `now` of
\* send_tcp_stats.
TcpMessage(j) ==
    Message(mac, "tcp/" \o Fmt(tcpStat[j].sl) \o "/ipv4address", tcpTs,
            tcpStat[j].local_address, "tcp")

\* Variant: a failed meminfo() read is logged and the collector is skipped.
MemStart_SkipOnError ==
    /\ pc = "mem_start"
    /\ memTs' = now
    /\ \/ \E snap \in MemSnapshots :
            /\ memInfo' = snap
            /\ pc' = "mem_send"
            /\ UNCHANGED <<status, readerFailed, inflight>>
       \/ /\ readerFailed' = "meminfo"
          /\ pc' = "tcp_start"
          /\ UNCHANGED <<status, memInfo, inflight>>
    /\ UNCHANGED <<connected, interval, mac, intervalArg, startupFailure, now>>
    /\ UNCHANGED <<deadline, sigint, sigterm, sigTaken, sigMidTick, ticksStarted>>
    /\ UNCHANGED <<tcpTs, tcpStat, memIdx, tcpIdx, log, lastResult>>
    /\ UNCHANGED shutdownVars

\* block_on(mem_future), lines 172-175: the clock is read, then meminfo();
\* unwrap panics when the read fails.
MemStart ==
    /\ pc = "mem_start"
    /\ memTs' = now
    /\ \/ \E snap \in MemSnapshots :
            /\ memInfo' = snap
            /\ pc' = "mem_send"
            /\ UNCHANGED <<status, readerFailed, inflight>>
       \/ /\ readerFailed' = "meminfo"
          /\ Exit(ExitPanic)
          /\ UNCHANGED <<memInfo, inflight>>
    /\ UNCHANGED <<connected, interval, mac, intervalArg, startupFailure, now>>
    /\ UNCHANGED <<deadline, sigint, sigterm, sigTaken, sigMidTick, ticksStarted>>
    /\ UNCHANGED <<tcpTs, tcpStat, memIdx, tcpIdx, log, lastResult>>
    /\ UNCHANGED shutdownVars

\* Lines 178-220: the next send(...) of send_mem_stats.
MemSend ==
    /\ pc = "mem_send"
    /\ \E r \in PublishResults :
         Send(MemMessage(memIdx), r,
              IF memIdx = NMem THEN "tcp_start" ELSE "mem_send")
    /\ memIdx' = memIdx + 1
    /\ UNCHANGED <<connected, interval, mac, intervalArg, startupFailure, now>>
    /\ UNCHANGED loopVars
    /\ UNCHANGED <<memTs, tcpTs, memInfo, tcpStat, tcpIdx, readerFailed>>
    /\ UNCHANGED shutdownVars

\* Variant: a failed tcp() read leaves the loop through the shutdown path.
TcpStart_DisconnectOnError ==
    /\ pc = "tcp_start"
    /\ tcpTs' = now
    /\ \/ \E table \in TcpTables :
            /\ tcpStat' = table
            /\ pc' = "tcp_send"
            /\ UNCHANGED <<status, readerFailed>>
       \/ /\ readerFailed' = "tcp"
          /\ pc' = "disconnect"
          /\ UNCHANGED <<status, tcpStat>>
    /\ UNCHANGED <<connected, interval, mac, intervalArg, startupFailure, now>>
    /\ UNCHANGED loopVars
    /\ UNCHANGED <<memTs, memInfo, memIdx, tcpIdx, log, lastResult>>
    /\ UNCHANGED shutdownVars

\* block_on(tcp_future), lines 226-228: the clock is read, then tcp();
\* unwrap panics when the read fails.
TcpStart ==
    /\ pc = "tcp_start"
    /\ tcpTs' = now
    /\ \/ \E table \in TcpTables :
            /\ tcpStat' = table
            /\ pc' = "tcp_send"
            /\ UNCHANGED <<status, readerFailed>>
       \/ /\ readerFailed' = "tcp"
          /\ Exit(ExitPanic)
          /\ UNCHANGED tcpStat
    /\ UNCHANGED <<connected, interval, mac, intervalArg, startupFailure, now>>
    /\ UNCHANGED loopVars
    /\ UNCHANGED <<memTs, memInfo, memIdx, tcpIdx, log, lastResult>>
    /\ UNCHANGED shutdownVars

\* Lines 230-233: one iteration of the loop over the TCP rows.
TcpSend ==
    /\ pc = "tcp_send"
    /\ tcpIdx <= Len(tcpStat)
    /\ \E r \in PublishResults :
         Send(TcpMessage(tcpIdx), r, "tcp_send")
    /\ tcpIdx' = tcpIdx + 1
    /\ UNCHANGED <<connected, interval, mac, intervalArg, startupFailure, now>>
    /\ UNCHANGED loopVars
    /\ UNCHANGED <<memTs, tcpTs, memInfo, tcpStat, memIdx, readerFailed>>
    /\ UNCHANGED shutdownVars

\* Lines 93-94 and 54: send_stats returns, its locals are dropped, and the
\* loop iterates.
TickReturn ==
    /\ pc = "tcp_send"
    /\ tcpIdx > Len(tcpStat)
    /\ inflight' = inflight - 1
    /\ pc' = "select"
    /\ memTs' = 0
    /\ tcpTs' = 0
    /\ memInfo' = NoMemInfo
    /\ tcpStat' = <<>>
    /\ memIdx' = 1
    /\ tcpIdx' = 1
    /\ log' = <<>>
    /\ UNCHANGED <<status, connected, interval, mac, intervalArg, startupFailure, now>>
    /\ UNCHANGED <<deadline, sigint, sigterm, sigTaken, sigMidTick, ticksStarted>>
    /\ UNCHANGED <<lastResult, readerFailed, shutdownVars>>

----------------------------------------------------------------------------
(* Shutdown: main, lines 66-71.                                            *)

\* Variant: a failed disconnect is tried again.
Disconnect_Retry ==
    /\ pc = "disconnect"
    /\ disconnects' = disconnects + 1
    /\ \E r \in {"ok", "err"} :
         /\ disconnectResult' = r
         /\ IF r = "ok"
            THEN /\ connected' = FALSE
                 /\ Exit(ExitOk)
            ELSE UNCHANGED <<connected, pc, status>>
    /\ UNCHANGED <<interval, mac, intervalArg, startupFailure, now>>
    /\ UNCHANGED <<loopVars, tickVars>>

\* Variant: the result of disconnect is logged and dropped.
Disconnect_IgnoreError ==
    /\ pc = "disconnect"
    /\ disconnects' = disconnects + 1
    /\ connected' = FALSE
    /\ \E r \in {"ok", "err"} :
         /\ disconnectResult' = r
         /\ Exit(ExitOk)
    /\ UNCHANGED <<interval, mac, intervalArg, startupFailure, now>>
    /\ UNCHANGED <<loopVars, tickVars>>

\* Line 68: cli.disconnect(None).unwrap() panics on an error; otherwise
\* main returns Ok(()).
Disconnect ==
    /\ pc = "disconnect"
    /\ disconnects' = disconnects + 1
    /\ connected' = FALSE
    /\ \E r \in {"ok", "err"} :
         /\ disconnectResult' = r
         /\ Exit(IF r = "ok" THEN ExitOk ELSE ExitPanic)
    /\ UNCHANGED <<interval, mac, intervalArg, startupFailure, now>>
    /\ UNCHANGED <<loopVars, tickVars>>

----------------------------------------------------------------------------
(* The environment.                                                        *)

\* The listeners exist and the loop has not been left.
Listening == pc = "select" \/ pc \in TickPcs

\* Time passes while the process runs.
ClockAdvance ==
    /\ pc \in {"get_mac", "signals", "select", "disconnect"} \cup TickPcs
    /\ now < MaxTime
    /\ now' = now + 1
    /\ UNCHANGED <<pc, status, connected, interval, mac, intervalArg, startupFailure>>
    /\ UNCHANGED <<loopVars, tickVars, shutdownVars>>

DeliverSigint ==
    /\ Listening
    /\ ~sigint
    /\ sigint' = TRUE
    /\ sigMidTick' = (sigMidTick \/ inflight > 0)
    /\ UNCHANGED <<pc, status, connected, interval, mac, intervalArg, startupFailure, now>>
    /\ UNCHANGED <<deadline, sigterm, sigTaken, inflight, ticksStarted>>
    /\ UNCHANGED <<tickVars, shutdownVars>>

DeliverSigterm ==
    /\ Listening
    /\ ~sigterm
    /\ sigterm' = TRUE
    /\ sigMidTick' = (sigMidTick \/ inflight > 0)
    /\ UNCHANGED <<pc, status, connected, interval, mac, intervalArg, startupFailure, now>>
    /\ UNCHANGED <<deadline, sigint, sigTaken, inflight, ticksStarted>>
    /\ UNCHANGED <<tickVars, shutdownVars>>

----------------------------------------------------------------------------
Next ==
    \/ ConnectMqtt
    \/ GetInterval
    \/ StartTimer
    \/ GetMac
    \/ RegisterSignals
    \/ TimerBranch
    \/ SigintBranch
    \/ SigtermBranch
    \/ MemStart
    \/ MemSend
    \/ TcpStart
    \/ TcpSend
    \/ TickReturn
    \/ Disconnect
    \/ ClockAdvance
    \/ DeliverSigint
    \/ DeliverSigterm

Spec == Init /\ [][Next]_vars

----------------------------------------------------------------------------
(* Unbounded time, for the properties of behaviours that never end: at the *)
(* horizon the origin of time moves forward by one period, which keeps     *)
(* every distance between the clock, the deadline and the runs issued.     *)

ClockShift ==
    /\ pc = "select"
    /\ now = MaxTime
    /\ interval <= now
    /\ deadline >= interval
    /\ ticksStarted >= 1
    /\ now' = now - interval
    /\ deadline' = deadline - interval
    /\ ticksStarted' = ticksStarted - 1
    /\ UNCHANGED <<pc, status, connected, interval, mac, intervalArg, startupFailure>>
    /\ UNCHANGED <<sigint, sigterm, sigTaken, sigMidTick, inflight>>
    /\ UNCHANGED <<tickVars, shutdownVars>>

\* The steps of the main thread.
ThreadStep ==
    \/ ConnectMqtt
    \/ GetInterval
    \/ StartTimer
    \/ GetMac
    \/ RegisterSignals
    \/ TimerBranch
    \/ SigintBranch
    \/ SigtermBranch
    \/ MemStart
    \/ MemSend
    \/ TcpStart
    \/ TcpSend
    \/ TickReturn
    \/ Disconnect

NextLive == Next \/ ClockShift

\* The thread runs whenever it can (no call hangs), and select! picks its
\* branch at random among the ready ones, so a signal branch that is ready
\* at infinitely many polls is taken.
FairSpec ==
    /\ Init
    /\ [][NextLive]_vars
    /\ WF_vars(ThreadStep)
    /\ SF_vars(SigintBranch)
    /\ SF_vars(SigtermBranch)

----------------------------------------------------------------------------
(* Properties.                                                             *)

SignalPending == sigint \/ sigterm

\* The tick in flight has handed every metric of both collectors to send.
TickComplete == Len(log) = NMem + Len(tcpStat)

\* C1: ticks are strictly sequential: at most one call of send_stats is in
\* flight in every reachable state, and a tick starts only when none is.
C1_TicksSequential ==
    /\ inflight <= 1
    /\ pc \in TickPcs => inflight = 1
    /\ pc = "select" => inflight = 0

\* C1 witness: the second tick is in flight, and the third is already due.
C1_Witness == inflight = 1 /\ ticksStarted = 2 /\ now >= deadline /\ pc = "mem_send"

\* C2: a signal never interrupts a tick: once a signal branch has been taken
\* or disconnect has been invoked, no tick is in flight and no tick is left
\* partly published; and no step taken inside a tick takes a signal branch.
C2_SignalDefersToTick ==
    /\ [](sigTaken # "none" \/ disconnects > 0 => inflight = 0 /\ log = <<>>)
    /\ [][(pc \in TickPcs) => (sigTaken' = "none" /\ disconnects' = disconnects)]_vars

\* C2 witness: a signal was delivered while a tick was in flight, and
\* disconnect has been invoked since.
C2_Witness == sigMidTick /\ disconnects = 1 /\ sigTaken = "SIGINT"

\* C3: disconnect is invoked at most once in every execution, and exactly
\* once when the process has stopped after leaving the loop through a signal.
C3_DisconnectOnce ==
    /\ disconnects <= 1
    /\ (pc = "done" /\ sigTaken # "none") => disconnects = 1

\* C3 witness: the process stopped after SIGTERM, with one disconnect.
C3_Witness == pc = "done" /\ sigTaken = "SIGTERM" /\ disconnects = 1 /\ ticksStarted >= 1

\* C4 as stated: whenever the process has stopped after a signal, its exit
\* status is success, whether disconnect succeeded or failed.
C4_AlwaysSuccess == (pc = "done" /\ sigTaken # "none") => status = ExitOk

\* C4 as amended: after a signal the process stops with one disconnect call;
\* the status is success when disconnect succeeded, and the panic status
\* when it failed (the error is not retried, but it is escalated).
C4_StatusFollowsDisconnect ==
    (pc = "done" /\ sigTaken # "none") =>
        /\ disconnects = 1
        /\ disconnectResult \in {"ok", "err"}
        /\ disconnectResult = "ok" => status = ExitOk
        /\ disconnectResult = "err" => status = ExitPanic

\* C4 witness: the process stopped after a failed disconnect.
C4_Witness == pc = "done" /\ disconnectResult = "err" /\ status = ExitPanic

\* C5 as stated: all messages of one tick carry the same timestamp.
C5_OneTimestampPerTick ==
    \A i, j \in DOMAIN log : log[i].ts = log[j].ts

\* C5 as amended: all messages of one collector in one tick carry that
\* collector's capture timestamp: the memory metrics the clock reading of
\* send_mem_stats, the TCP metrics the clock reading of send_tcp_stats.
C5_OneTimestampPerCollector ==
    \A i \in DOMAIN log :
        /\ log[i].collector = "mem" => log[i].ts = memTs
        /\ log[i].collector = "tcp" => log[i].ts = tcpTs

\* C5 witness: a tick has published every metric of both collectors while
\* the clock advanced during the memory sequence.
C5_Witness ==
    /\ pc = "tcp_send"
    /\ Len(tcpStat) = MaxRows
    /\ TickComplete
    /\ memTs < tcpTs
    /\ tcpTs < now

\* C6 as stated: the collectors run concurrently: while the memory sequence
\* of a tick is unfinished, the TCP collector can take its next step.
C6_Concurrent ==
    pc \in {"mem_start", "mem_send"} => ENABLED (TcpStart \/ TcpSend)

\* A publish step whose cli.publish returned an error.
PublishFailedStep == Len(log') = Len(log) + 1 /\ lastResult' = "err"

\* C7: a publish failure is non-fatal: the failing step leaves the process
\* running inside the tick and changes nothing of the loop, and a tick
\* returns only after every metric of both collectors has been attempted.
C7_PublishFailureNonFatal ==
    /\ [][PublishFailedStep =>
            /\ pc' \in TickPcs
            /\ status' = NoStatus
            /\ UNCHANGED <<loopVars, shutdownVars, connected, interval, mac,
                           intervalArg, startupFailure>>]_vars
    /\ [][(pc \in TickPcs /\ pc' = "select") => TickComplete]_vars

\* C7 witness: the last publish of the first tick failed and the second tick
\* is running.
C7_Witness ==
    /\ lastResult = "err"
    /\ ticksStarted = 2
    /\ pc = "mem_send"
    /\ log = <<>>

\* C8: a kernel-statistics reader failure is fatal: the process has
\* terminated with the panic status, and after the failure no metric is
\* published and no tick starts.
C8_ReaderFailureFatal ==
    /\ [](readerFailed # "none" => pc = "done" /\ status = ExitPanic)
    /\ [][readerFailed # "none" => UNCHANGED <<log, ticksStarted, pc>>]_vars

\* C8 witness: the TCP-table read failed after the memory metrics of the
\* tick were published.
C8_Witness == readerFailed = "tcp" /\ pc = "done" /\ Len(log) = NMem

\* C9 as stated: at the wait with a signal pending, the loop never starts
\* another tick.
C9_SignalAlwaysWins ==
    [][pc = "select" /\ SignalPending => pc' # "mem_start"]_vars

\* C9 as amended: at the wait with a signal pending, the loop leaves the
\* wait either to Draining or, only when the timer tick is ready at the same
\* moment, to another tick.
C9_SignalOrReadyTimer ==
    [][pc = "select" /\ SignalPending /\ pc' # pc =>
          \/ pc' = "disconnect"
          \/ now >= deadline /\ pc' = "mem_start"]_vars

\* C9 witness: a signal branch was taken although the timer tick was ready.
C9_Witness == pc = "disconnect" /\ now >= deadline /\ ticksStarted >= 1

\* C10 as stated: whenever the loop waits with no tick due, it has issued
\* one run per interval elapsed.
C10_OneRunPerInterval ==
    (pc = "select" /\ now < deadline) => ticksStarted = now \div interval

\* C10 as amended: the first run is issued at once and one more becomes due
\* per interval: the runs issued never exceed elapsed/interval + 1, reach it
\* whenever the loop waits with no tick due, and never overlap.
C10_OneRunPerIntervalAfterFirst ==
    /\ pc \in {"select", "disconnect"} \cup TickPcs =>
          ticksStarted <= now \div interval + 1
    /\ (pc = "select" /\ now < deadline) => ticksStarted = now \div interval + 1
    /\ inflight <= 1

\* C10 witness: three runs issued after two seconds at interval 1.
C10_Witness ==
    pc = "select" /\ now < deadline /\ interval = 1 /\ ticksStarted = 3 /\ now = 2

\* main has computed `interval` from the argument (line 39 is behind it).
IntervalRead ==
    pc \notin {"connect", "interval"} /\ startupFailure \notin {"client_new", "connect"}

\* C11 as stated: a minimum of 1 is enforced: for every argument the timer
\* period is at least 1 and startup does not fail at the timer.
C11_MinimumEnforced ==
    IntervalRead => (interval >= 1 /\ startupFailure # "timer")

\* C11 as amended: no minimum is enforced: the period is below 1 exactly for
\* the argument "0", and exactly then startup fails at the timer; for every
\* other argument the period is at least 1 and the timer is created.
C11_ZeroIntervalFails ==
    IntervalRead =>
        /\ (interval = 0) <=> (intervalArg = <<"0">>)
        /\ interval >= 0
        /\ (startupFailure = "timer") <=> (interval = 0 /\ pc # "timer")
        /\ startupFailure = "timer" => (pc = "done" /\ status = ExitPanic)

\* C11 witness: the argument "0" ended startup at the timer.
C11_Witness ==
    intervalArg = <<"0">> /\ startupFailure = "timer" /\ status = ExitPanic

\* The arguments that are no unsigned whole number: absent, empty,
\* non-numeric, negative, digits followed by a letter.
NotUnsignedArgs ==
    {Absent, <<>>, <<"a", "b", "c">>, <<"-", "1">>, <<"1", "x">>}

\* C12: an argument that is absent or no unsigned whole number yields a
\* period of exactly 10 seconds, and startup goes on past the timer.
C12_FallbackToDefault ==
    (IntervalRead /\ intervalArg \in NotUnsignedArgs) =>
        /\ interval = 10
        /\ startupFailure # "timer"

\* C12 witness: the loop runs with period 10 after the argument "abc".
C12_Witness ==
    pc = "select" /\ intervalArg = <<"a", "b", "c">> /\ interval = 10 /\ ticksStarted = 1

\* C13: a startup failure never reaches scheduling: once client
\* construction, the connect, the interface lookup or the address read has
\* failed, the process has terminated with a non-zero status, no tick has
\* run, no metric was published, and nothing is tried again.
C13_StartupFailureStops ==
    /\ [](startupFailure # "none" =>
            /\ pc = "done"
            /\ status \in {ExitFailure, ExitPanic}
            /\ ticksStarted = 0
            /\ inflight = 0
            /\ log = <<>>
            /\ lastResult = "none")
    /\ [](startupFailure \in {"client_new", "connect"} => status = ExitFailure)
    /\ [][startupFailure # "none" => UNCHANGED vars]_vars

\* C13 witness: the broker is connected, no interface but lo exists, and
\* the process has terminated.
C13_Witness ==
    startupFailure = "no_iface" /\ pc = "done" /\ connected /\ status = ExitPanic

\* C14: each metric is handed to the publisher exactly once: the attempts of
\* a tick are one per memory field sent so far and one per TCP row sent so
\* far, in order and without repetition, also after a failed publish; a step
\* makes at most one attempt, and a tick returns with exactly one attempt per
\* field and per row.
C14_OneAttemptPerMetric ==
    /\ [](/\ Len(log) = (memIdx - 1) + (tcpIdx - 1)
          /\ memIdx <= NMem + 1
          /\ tcpIdx <= Len(tcpStat) + 1
          /\ \A i \in DOMAIN log : i <= NMem => log[i].metric = MemTable[i][1]
          /\ \A i, j \in DOMAIN log : i # j => log[i].metric # log[j].metric)
    /\ [][Len(log') <= Len(log) + 1]_vars
    /\ [][(pc \in TickPcs /\ pc' = "select") =>
             (memIdx = NMem + 1 /\ tcpIdx = Len(tcpStat) + 1)]_vars

\* C14 witness: the second tick has attempted every metric once, and its
\* last publish failed.
C14_Witness ==
    /\ pc = "tcp_send"
    /\ ticksStarted = 2
    /\ Len(tcpStat) = 1
    /\ Len(log) = NMem + 1
    /\ lastResult = "err"

\* C15: for every identity, metric name, timestamp and value, the message
\* handed to cli.publish has topic metrics/{identity}/{name}, payload
\* {timestamp};{value} and QoS 0; identity aa:bb:cc:dd:ee:ff, name
\* memory/total, timestamp 1700000000 and value 1048576 give topic
\* metrics/aa:bb:cc:dd:ee:ff/memory/total and payload 1700000000;1048576.
C15_TopicAndPayload ==
    /\ \A i \in DOMAIN log :
          /\ log[i].topic = "metrics/" \o mac \o "/" \o log[i].metric
          /\ log[i].payload = Fmt(log[i].ts) \o ";" \o log[i].mvalue
          /\ log[i].qos = 0
    /\ (Len(log) >= 16 /\ mac = "aa:bb:cc:dd:ee:ff\n" /\ memTs = 2) =>
          /\ log[16].topic = "metrics/aa:bb:cc:dd:ee:ff\n/memory/swap/free"
          /\ log[16].payload \in {"2;16", "2;1016"}
    /\ LET m == Message("aa:bb:cc:dd:ee:ff", "memory/total", 1700000000, "1048576", "mem")
       IN  /\ m.topic = "metrics/aa:bb:cc:dd:ee:ff/memory/total"
           /\ m.payload = "1700000000;1048576"
           /\ m.qos = 0

\* C15 witness: the sixteenth memory metric of a tick stamped 2 was handed
\* to cli.publish with value 1016.
C15_Witness ==
    /\ Len(log) >= 16
    /\ log[16].topic = "metrics/aa:bb:cc:dd:ee:ff\n/memory/swap/free"
    /\ log[16].payload = "2;1016"

\* The metric name of a row, by its kernel slot number.
SlotMetric(sl) ==
    CASE sl = 0 -> "tcp/0/ipv4address"
      [] sl = 3 -> "tcp/3/ipv4address"
      [] sl = 7 -> "tcp/7/ipv4address"

\* C16: the TCP Collector emits one metric per socket row, in table order,
\* named tcp/{sl}/ipv4address by the row's slot number and valued with the
\* row's local address; when the tick returns every row has its metric.
C16_OneMetricPerRow ==
    /\ [](/\ tcpIdx - 1 <= Len(tcpStat)
          /\ Cardinality({i \in DOMAIN log : log[i].collector = "tcp"}) = tcpIdx - 1
          /\ \A j \in 1..(tcpIdx - 1) :
                /\ log[NMem + j].collector = "tcp"
                /\ log[NMem + j].metric = SlotMetric(tcpStat[j].sl)
                /\ log[NMem + j].mvalue = tcpStat[j].local_address
                /\ log[NMem + j].ts = tcpTs)
    /\ [][(pc \in TickPcs /\ pc' = "select") => tcpIdx - 1 = Len(tcpStat)]_vars

\* C16 witness: the rows at slots 0, 3 and 7 were sent as tcp/0, tcp/3 and
\* tcp/7.
C16_Witness ==
    /\ pc = "tcp_send"
    /\ Len(tcpStat) = 3
    /\ Len(log) = NMem + 3
    /\ log[NMem + 1].metric = "tcp/0/ipv4address"
    /\ log[NMem + 2].metric = "tcp/3/ipv4address"
    /\ log[NMem + 3].metric = "tcp/7/ipv4address"
    /\ log[NMem + 3].mvalue = "0.0.0.0:1883"

\* C17: shutdown is eventually reached: from every state where a signal is
\* pending while the loop runs, if every tick returns (no statistics read
\* panics inside it), the loop leaves Running, disconnect is invoked once
\* and the process stops; it does not run ticks forever.
C17_ShutdownReached ==
    (Listening /\ SignalPending) ~>
        \/ pc = "done" /\ disconnects = 1 /\ sigTaken # "none"
        \/ readerFailed # "none"

\* C17 witness: the process stopped through SIGTERM after more than one
\* tick ran with the timer ready.
C17_Witness ==
    /\ pc = "done"
    /\ sigTaken = "SIGTERM"
    /\ disconnectResult = "ok"
    /\ now >= deadline
    /\ sigMidTick

C19_PublishWhileConnected ==
    /\ [][Len(log') > Len(log) =>
            /\ connected
            /\ disconnects = 0
            /\ startupFailure \notin {"client_new", "connect"}]_vars
    /\ [](pc = "connect" => log = <<>> /\ lastResult = "none")
    /\ [](~connected => (pc \in {"connect", "done"} /\ ~ENABLED (MemSend \/ TcpSend)))
    /\ [][disconnects > 0 => UNCHANGED <<log, lastResult>>]_vars

\* C19 witness: metrics were published and the process then disconnected.
C19_Witness ==
    /\ pc = "done"
    /\ disconnects = 1
    /\ ~connected
    /\ lastResult # "none"

\* C20: disconnect is reachable only through the signal branches: when the
\* process terminated because a kernel-statistics read failed in a tick,
\* disconnect was never invoked and the shutdown step is skipped.
C20_DisconnectOnlyAfterSignal ==
    /\ [](readerFailed # "none" =>
            /\ pc = "done"
            /\ disconnects = 0
            /\ disconnectResult = "none"
            /\ connected
            /\ sigTaken = "none")
    /\ []((disconnects > 0 \/ pc = "disconnect") => sigTaken # "none")
    /\ [][pc' = "disconnect" /\ pc # "disconnect" =>
            pc = "select" /\ sigTaken = "none" /\ sigTaken' # "none"]_vars

\* C20 witness: the TCP-table read failed with a signal pending, and the
\* process stopped without a disconnect.
C20_Witness ==
    /\ readerFailed = "tcp"
    /\ pc = "done"
    /\ SignalPending
    /\ disconnects = 0
    /\ connected

====
